---- MODULE Spec2Model ----
(***************************************************************************)
(* The inventory ledger of rough_casting_system: the two console scripts   *)
(* (loop2.py, palletes.py) that keep `pallets` and `logs`, and the GUI     *)
(* script (loop.py) that keeps `products` and `transaction_logs`.  All     *)
(* three open the same SQLite file, pallets.db.                            *)
(*                                                                         *)
(* The durable (committed) content of the file is pallets, logs, logseq,   *)
(* products, transaction_logs.  A connection that has executed an UPDATE   *)
(* or INSERT holds SQLite's write lock (writer) and works on its own copy  *)
(* (txn) until it commits or rolls back, or until the connection, left     *)
(* behind by its page with the transaction open, is finalized.  Each       *)
(* running script is one                                                   *)
(* process of Procs; its position inside process_scan / scan_page and its  *)
(* local variables are proc[p].  out is the message the scripts printed    *)
(* last, since the last scan began; conn is how the operation that ended   *)
(* last left its connection, and returned is what it gave its caller.      *)
(***************************************************************************)
EXTENDS Integers, Sequences, FiniteSets, TLC

VARIABLES pallets, logs, logseq, products, transaction_logs,
          writer, txn, proc, now, out, conn, returned

db == <<pallets, logs, logseq, products, transaction_logs>>
vars == <<pallets, logs, logseq, products, transaction_logs,
          writer, txn, proc, now, out, conn, returned>>

----------------------------------------------------------------------------
(* Bounds of the model *)

\* payload quantities range over -1 .. MaxQty
MaxQty == 2
\* a scan is started only while fewer than MaxLog log rows are committed
\* (logs and transaction_logs together)
MaxLog == 3

Procs == {"w1", "w2"}
PalletIds == {"P1", "P2"}
ItemNames == {"bolt", "nut"}
BatchIds == {"B1", "B2"}
\* datetime.now(), to the second
Times == {0, 1}
Quantities == (0 - 1) .. MaxQty
Operations == {"entry", "exit"}
\* what the operator types at the confirmation prompt
Answers == {"yes", " YES ", "no"}
\* st.slider("Initial Stock %", 0, 100, 50): its ends and its default
InitialStocks == {0, 50, 100}
\* st.number_input("Stock Change", min_value=-100, max_value=100, value=0)
StockChanges == {0 - 100, 0 - 50, 0, 50, 100}
Levels == {"Raw", "Processing", "Finished", "Shipped"}
Statuses == {"Pending", "In Progress", "Completed", "Delayed"}
\* the report types of reports_page's selectbox
ReportTypes == {"All Products", "By Status", "By Level",
                "Critical Stock (<20%)", "Upcoming Deadlines"}
\* view_logs: LIMIT 20
ViewLimit == 20
\* home_page: LIMIT 5
HomeLimit == 5

\* json.loads of a payload whose quantity is `null`: Python's None, which
\* SQLite stores as NULL
None == "null"
\* the texts process_scan may be called with that are not a well-formed
\* payload: no JSON at all; JSON without pallet_id; JSON whose quantity is not
\* an integer
BadQrData == {"not json", "no pallet_id", "null quantity"}

Nobody == "nobody"
\* the holder of the write lock when it is a connection that its page has
\* left, open and with its transaction uncommitted
Leaked == "a connection left behind"
\* fetchone() with no matching row (None); a row is the tuple <<quantity>>
NoRow == << >>
NoTxn == "no transaction"
\* conn: the operation opened no connection (or has not ended yet); it ended
\* after conn.close(); it ended on a path with no conn.close()
NoConnection == "no connection"
Closed == "closed"
LeftOpen == "left open"
\* returned: the operation has not ended; `return` or the end of the function
\* (None); an exception left the function; st.experimental_rerun() left it
Running == "not returned"
ReturnedNone == "None"
Raised == "exception"
Rerun == "RerunException"

----------------------------------------------------------------------------
(* Pure parts of process_scan *)

\* v is None and no integer.  (An integer and a string are not comparable in
\* TLA+; their printed forms are.)
IsNone(v) == ToString(v) = ToString(None)

\* input(...).strip().lower() of an answer
StripLower(answer) == IF answer = " YES " THEN "yes" ELSE answer

\* a gate that lets every answer through
ConfirmedWhatever(confirm) == TRUE

\* `if confirm != 'yes':` is the cancellation; this is its negation
Confirmed(confirm) == confirm = "yes"

\* `if row:` -- fetchone() gave a row (a 1-tuple, truthy whatever it holds)
RowFound(row) == Len(row) > 0

\* the exit guard with its comparison turned around
InsufficientStockInverted(current_qty, qty_change) == current_qty > qty_change

\* the exit guard off by one: taking all a pallet holds is refused
InsufficientStockOffByOne(current_qty, qty_change) == current_qty <= qty_change

\* the exit branch's guard, `if current_qty < qty_change:`
InsufficientStock(current_qty, qty_change) == current_qty < qty_change

\* the new-pallet branch without its exit check
ExitOfUnknownIgnored(operation) == FALSE

\* `if operation == "exit":` of the new-pallet branch: nothing to take from
ExitOfUnknown(operation) == operation = "exit"

\* new_qty that adds whatever the operation
NewQtyAlwaysAdds(operation, current_qty, qty_change) == current_qty + qty_change

\* new_qty of an existing pallet
NewQty(operation, current_qty, qty_change) ==
    IF operation = "entry" THEN current_qty + qty_change
                           ELSE current_qty - qty_change

\* a table without its key: an INSERT of an id it holds is let through
PrimaryKeyNotEnforced(tbl, pallet_id) == FALSE

\* pallet_id TEXT PRIMARY KEY: an INSERT of an id the table holds is refused
\* (IntegrityError: UNIQUE constraint failed)
PrimaryKeyViolated(tbl, pallet_id) == pallet_id \in DOMAIN tbl

\* SELECT quantity FROM pallets WHERE pallet_id = ? ; fetchone()
SelectQuantity(tbl, pallet_id) ==
    IF pallet_id \in DOMAIN tbl THEN <<tbl[pallet_id].quantity>> ELSE NoRow

\* the UPDATE without its WHERE clause: every row is written
UpdatePalletNoWhere(tbl, pallet_id, new_qty, timestamp) ==
    [id \in DOMAIN tbl |->
        [tbl[id] EXCEPT !.quantity = new_qty, !.last_updated = timestamp]]

\* UPDATE pallets SET quantity = ?, last_updated = ? WHERE pallet_id = ?
UpdatePallet(tbl, pallet_id, new_qty, timestamp) ==
    [id \in DOMAIN tbl |->
        IF id = pallet_id
        THEN [tbl[id] EXCEPT !.quantity = new_qty, !.last_updated = timestamp]
        ELSE tbl[id]]

\* an INSERT that leaves the quantity out
InsertPalletNoQuantity(tbl, pallet_id, item_name, new_qty, timestamp) ==
    [id \in DOMAIN tbl \cup {pallet_id} |->
        IF id = pallet_id
        THEN [item_name |-> item_name, quantity |-> 0,
              last_updated |-> timestamp]
        ELSE tbl[id]]

\* INSERT INTO pallets (pallet_id, item_name, quantity, last_updated)
InsertPallet(tbl, pallet_id, item_name, new_qty, timestamp) ==
    [id \in DOMAIN tbl \cup {pallet_id} |->
        IF id = pallet_id
        THEN [item_name |-> item_name, quantity |-> new_qty,
              last_updated |-> timestamp]
        ELSE tbl[id]]

\* log_id INTEGER PRIMARY KEY AUTOINCREMENT: one more than the largest id the
\* table ever held, which sqlite_sequence (logseq) remembers
MaxLogId(rows) ==
    IF rows = <<>> THEN 0
    ELSE CHOOSE m \in {rows[i].log_id : i \in 1..Len(rows)} :
            \A i \in 1..Len(rows) : rows[i].log_id <= m

\* an id that is not advanced: the largest id is given again
NextLogIdReused(rows, sq) == IF MaxLogId(rows) > sq THEN MaxLogId(rows) ELSE sq

NextLogId(rows, sq) == (IF MaxLogId(rows) > sq THEN MaxLogId(rows) ELSE sq) + 1

\* log_operation given the scanned operation for a new pallet too: its first
\* row is labelled like any entry
InsertLogAsEntry(rows, sq, pallet_id, operation, qty_change, prev_qty, new_qty, timestamp) ==
    Append(rows, [log_id |-> NextLogId(rows, sq),
                  pallet_id |-> pallet_id,
                  operation |-> IF operation = "exit" THEN "exit" ELSE "entry",
                  quantity_change |-> qty_change,
                  previous_quantity |-> prev_qty,
                  new_quantity |-> new_qty,
                  timestamp |-> timestamp])

\* log_operation's INSERT INTO logs (...) VALUES (?, ?, ?, ?, ?, ?)
InsertLog(rows, sq, pallet_id, operation, qty_change, prev_qty, new_qty, timestamp) ==
    Append(rows, [log_id |-> NextLogId(rows, sq),
                  pallet_id |-> pallet_id,
                  operation |-> operation,
                  quantity_change |-> qty_change,
                  previous_quantity |-> prev_qty,
                  new_quantity |-> new_qty,
                  timestamp |-> timestamp])

\* no rollback: what the connection wrote stays in the file
KeptAfterFailure(committed, working) == working

\* leaving `with sqlite3.connect(...) as conn:` by an exception rolls back:
\* the file keeps its committed content and the connection's copy is dropped
RolledBack(committed, working) == committed

\* conn.commit(): the connection's copy becomes the file's content
Committed(committed, working) == working

----------------------------------------------------------------------------
(* process_scan of palletes.py, from its connection to its return, as one   *)
(* function of the file's content, the decoded payload, the operation and   *)
(* the two readings of the clock (process_scan's and log_operation's)       *)

\* new_qty that adds whatever the operation
PalletesNewQtyAlwaysAdds(operation, current_qty, qty_change) ==
    current_qty + qty_change

\* new_qty of an existing pallet: `if operation == "entry": ... else: ...`
PalletesNewQty(operation, current_qty, qty_change) ==
    IF operation = "entry" THEN current_qty + qty_change
                           ELSE current_qty - qty_change

\* The content of pallets, logs and sqlite_sequence when the function has
\* returned: unchanged after either `return` of the validation, else with the
\* UPDATE or INSERT and the log row committed.
PalletesProcessScan(tbl, rows, sq, pallet_info, operation, timestamp, logged) ==
    LET pallet_id == pallet_info.pallet_id
        row == SelectQuantity(tbl, pallet_id)
        unchanged == [pallets |-> tbl, logs |-> rows, logseq |-> sq]
    IN  IF RowFound(row)
        THEN LET current_qty == row[1]
                 qty_change == pallet_info.quantity
                 new_qty == PalletesNewQty(operation, current_qty, qty_change)
             IN  IF operation # "entry" /\ current_qty < qty_change
                 THEN unchanged
                 ELSE [pallets |-> UpdatePallet(tbl, pallet_id, new_qty, timestamp),
                       logs |-> InsertLog(rows, sq, pallet_id, operation,
                                          qty_change, current_qty, new_qty, logged),
                       logseq |-> NextLogId(rows, sq)]
        ELSE IF operation = "exit"
             THEN unchanged
             ELSE LET new_qty == pallet_info.quantity
                  IN  [pallets |-> InsertPallet(tbl, pallet_id, pallet_info.item_name,
                                                new_qty, timestamp),
                       logs |-> InsertLog(rows, sq, pallet_id, "initial entry",
                                          new_qty, 0, new_qty, logged),
                       logseq |-> NextLogId(rows, sq)]

----------------------------------------------------------------------------
(* Pure parts of scan_page's stock form and of register_page (loop.py) *)

\* `if not 0 <= new_stock <= 100:` is the rejection; this is its negation
StockInRange(new_stock) == 0 <= new_stock /\ new_stock <= 100

\* What a column of the file holds for a number: SQLite stores a value in the
\* storage class it was bound with, an INTEGER or a BLOB (a column's declared
\* type converts no BLOB).  `value` is the number; for a BLOB it is the number
\* whose 8 bytes, low byte first, the BLOB is made of.
Integer(n) == [storage |-> "INTEGER", value |-> n]
Blob(n) == [storage |-> "BLOB", value |-> n]

\* The values of the Python side: an int (what st.slider and st.number_input
\* return, and what an INTEGER is read as), a numpy.int64 (an element of a
\* DataFrame column of integers) and bytes (what a BLOB is read as).
PyInt(n) == [type |-> "int", value |-> n]
NumpyInt64(n) == [type |-> "numpy.int64", value |-> n]
Bytes(n) == [type |-> "bytes", value |-> n]

\* sqlite3 binds a `?` parameter by its Python type: an int as an INTEGER;
\* a numpy.int64, which is no int but gives its 8 bytes through the buffer
\* protocol, as a BLOB, like bytes.
Bind(v) == IF v.type = "int" THEN Integer(v.value) ELSE Blob(v.value)

\* pd.read_sql's conversion of a column of stored values: a column of
\* INTEGERs alone becomes an int64 column, whose elements are numpy.int64;
\* a column with a BLOB in it stays a column of objects, the INTEGERs Python
\* ints and the BLOBs bytes.
ReadSqlColumn(cells) ==
    LET integers == \A i \in DOMAIN cells : cells[i].storage = "INTEGER"
    IN  [i \in DOMAIN cells |->
            IF cells[i].storage = "BLOB" THEN Bytes(cells[i].value)
            ELSE IF integers THEN NumpyInt64(cells[i].value)
            ELSE PyInt(cells[i].value)]

\* `new_stock = current_stock + change` for a current_stock that is a number:
\* the sum has the type of current_stock (bytes + int raises TypeError)
NewStock(current_stock, change) ==
    [current_stock EXCEPT !.value = @ + change]

\* the character that ends a quoted text in SQL
Quote == "'"

\* the text s holds a quote
RECURSIVE HasQuote(_)
HasQuote(s) ==
    /\ s # ""
    /\ (SubSeq(s, 1, 1) = Quote \/ HasQuote(SubSeq(s, 2, Len(s))))

\* The batch ids of the model that hold a quote and for which the text
\* f"... WHERE batch_id = '{batch_id}'" is a statement SQLite accepts, with a
\* condition that holds for every row:
\*   batch_id = 'x' OR '1'='1'            (a payload that is no batch's id)
\*   batch_id = ''OR-1---260201-AB12'     (the id register_page makes for the
\*                                         company "'or" and the product "1--":
\*                                         '' OR -1, the rest a comment)
EveryRowIds == {"x' OR '1'='1", "'OR-1---260201-AB12"}

\* The WHERE clause scan_page builds from the payload's batch_id by putting
\* it between two quotes: an id with no quote is compared with the column;
\* an id with a quote ends the quoted text, and what follows it is read as
\* SQL (for "O'N-WID-260201-AB12", the id of a batch of the company O'Neil:
\* near "N": syntax error).
WhereBatchId(batch_id) ==
    IF ~HasQuote(batch_id) THEN "batch_id = the id"
    ELSE IF batch_id \in EveryRowIds THEN "every row"
    ELSE "syntax error"

\* the ids of ids in the order a scan of the table reads its rows in
InScanOrder(tbl, ids) ==
    IF ids = {} THEN << >>
    ELSE CHOOSE s \in [1..Cardinality(ids) -> ids] :
            \A i, j \in 1..Cardinality(ids) :
                i < j => tbl[s[i]].rowid < tbl[s[j]].rowid

\* product = pd.read_sql(f"SELECT ... stock_percent ... FROM products WHERE
\* batch_id = '{batch_id}'", conn): the statement raises, or gives the
\* stock_percent of the rows its condition holds for, in scan order, as the
\* DataFrame holds them (product.empty is rows = << >>, product.iloc[0] is
\* rows[1])
SelectStock(tbl, batch_id) ==
    LET where == WhereBatchId(batch_id)
        ids == IF where = "every row" THEN DOMAIN tbl
               ELSE DOMAIN tbl \cap {batch_id}
        found == InScanOrder(tbl, ids)
    IN  IF where = "syntax error"
        THEN [raised |-> TRUE, rows |-> << >>]
        ELSE [raised |-> FALSE,
              rows |-> ReadSqlColumn([i \in 1..Len(found) |->
                                        tbl[found[i]].stock_percent])]

\* UPDATE products SET stock_percent = ?, last_updated = ? WHERE batch_id = ?
\* with the parameters (new_stock, timestamp, batch_id)
UpdateStock(tbl, batch_id, new_stock, timestamp) ==
    [id \in DOMAIN tbl |->
        IF id = batch_id
        THEN [tbl[id] EXCEPT !.stock_percent = Bind(new_stock),
                             !.last_updated = timestamp]
        ELSE tbl[id]]

\* the largest rowid of the rows of transaction_logs (0 when there is none)
MaxLogRowid(rows) ==
    IF rows = << >> THEN 0
    ELSE CHOOSE m \in {rows[i].rowid : i \in 1..Len(rows)} :
            \A i \in 1..Len(rows) : rows[i].rowid <= m

\* INSERT INTO transaction_logs (batch_id, operation, quantity_change,
\* previous_stock, new_stock, timestamp) with the parameters (batch_id,
\* "Stock Update", change, current_stock, new_stock, timestamp).  The
\* statement names no id column: the row's id is the rowid SQLite gives it,
\* the one after the largest in the table.
InsertTransactionLog(rows, batch_id, change, current_stock, new_stock, timestamp) ==
    Append(rows, [rowid |-> MaxLogRowid(rows) + 1,
                  batch_id |-> batch_id,
                  operation |-> "Stock Update",
                  quantity_change |-> Bind(PyInt(change)),
                  previous_stock |-> Bind(current_stock),
                  new_stock |-> Bind(new_stock),
                  timestamp |-> timestamp])

\* an UPDATE of the level that also puts the status back to "Pending"
UpdateLevelResetsStatus(tbl, batch_id, new_level, timestamp) ==
    [id \in DOMAIN tbl |->
        IF id = batch_id
        THEN [tbl[id] EXCEPT !.level = new_level, !.status = "Pending",
                             !.last_updated = timestamp]
        ELSE tbl[id]]

\* UPDATE products SET level = ?, last_updated = ? WHERE batch_id = ?
UpdateLevel(tbl, batch_id, new_level, timestamp) ==
    [id \in DOMAIN tbl |->
        IF id = batch_id
        THEN [tbl[id] EXCEPT !.level = new_level, !.last_updated = timestamp]
        ELSE tbl[id]]

\* UPDATE products SET status = ?, last_updated = ? WHERE batch_id = ?
UpdateStatus(tbl, batch_id, new_status, timestamp) ==
    [id \in DOMAIN tbl |->
        IF id = batch_id
        THEN [tbl[id] EXCEPT !.status = new_status, !.last_updated = timestamp]
        ELSE tbl[id]]

\* the largest rowid of the table (0 for an empty one)
MaxRowid(tbl) ==
    IF DOMAIN tbl = {} THEN 0
    ELSE CHOOSE m \in {tbl[id].rowid : id \in DOMAIN tbl} :
            \A id \in DOMAIN tbl : tbl[id].rowid <= m

\* INSERT INTO products (...) of register_page, status "Pending", with the
\* int of the stock slider.  SQLite
\* gives the row the rowid after the largest one, which is its place in the
\* order a scan of the table reads the rows in.
InsertProduct(tbl, batch_id, level, stock_percent, timestamp) ==
    [id \in DOMAIN tbl \cup {batch_id} |->
        IF id = batch_id
        THEN [level |-> level, stock_percent |-> Bind(PyInt(stock_percent)),
              status |-> "Pending", last_updated |-> timestamp,
              rowid |-> MaxRowid(tbl) + 1]
        ELSE tbl[id]]

----------------------------------------------------------------------------
(* The queries of view_logs (loop2.py, palletes.py), reports_page and      *)
(* home_page (loop.py)                                                     *)

\* a DELETE in the place of the SELECT
AfterSelectDeleted(tbl) == << >>

\* the table a SELECT has read from: the statement changes no row
AfterSelect(tbl) == tbl

\* The indices of the `limit` rows that `ORDER BY <column> DESC LIMIT <limit>`
\* keeps, given each row's value of the column and its place in the scan of
\* the table (all rows when there are no more than `limit`).  Of two rows
\* with the same value SQLite keeps the one the scan reads first.
Latest(keys, column, scan, limit) ==
    LET Before(i, j) ==
            \/ keys[i][column] > keys[j][column]
            \/ keys[i][column] = keys[j][column] /\ scan[i] < scan[j]
    IN  IF Cardinality(DOMAIN keys) <= limit THEN DOMAIN keys
        ELSE CHOOSE S \in SUBSET DOMAIN keys :
                /\ Cardinality(S) = limit
                /\ \A i \in S, j \in DOMAIN keys \ S : Before(i, j)

\* SELECT log_id, ... FROM logs ORDER BY timestamp DESC LIMIT 20: the rows
\* that view_logs prints (the table is scanned in log_id order)
RecentLogs(rows) ==
    {rows[i] : i \in Latest(rows, "timestamp",
                            [i \in DOMAIN rows |-> rows[i].log_id], ViewLimit)}

\* SELECT ... FROM products ORDER BY last_updated DESC LIMIT 5: the batches
\* that home_page shows (the table is scanned in rowid order)
RecentProducts(tbl) ==
    Latest(tbl, "last_updated", [b \in DOMAIN tbl |-> tbl[b].rowid], HomeLimit)

\* The batches a report of reports_page shows.  `due` stands for the batches
\* whose deadline is no later than 7 days from now.  In SQLite's order of
\* storage classes a BLOB is greater than every number, so `stock_percent <
\* 20` holds for no BLOB.
ReportRows(tbl, report_type, status, level, due) ==
    CASE report_type = "All Products" -> DOMAIN tbl
      [] report_type = "By Status" -> {b \in DOMAIN tbl : tbl[b].status = status}
      [] report_type = "By Level" -> {b \in DOMAIN tbl : tbl[b].level = level}
      [] report_type = "Critical Stock (<20%)" ->
            {b \in DOMAIN tbl : /\ tbl[b].stock_percent.storage = "INTEGER"
                                 /\ tbl[b].stock_percent.value < 20}
      [] report_type = "Upcoming Deadlines" -> DOMAIN tbl \cap due

----------------------------------------------------------------------------
(* Process state *)

Idle == [pc |-> "idle"]

Init ==
    /\ pallets = << >>
    /\ logs = << >>
    /\ logseq = 0
    /\ products = << >>
    /\ transaction_logs = << >>
    /\ writer = Nobody
    /\ txn = NoTxn
    /\ proc = [p \in Procs |-> Idle]
    /\ now = 0
    /\ out = "none"
    /\ conn = NoConnection
    /\ returned = Running

\* the wall clock advances
Tick ==
    /\ \E t \in Times : t > now /\ now' = t
    /\ UNCHANGED <<db, writer, txn, proc, out, conn, returned>>

\* rows committed to the two log tables
LogCount == Len(logs) + Len(transaction_logs)

\* the connection's working copy when its first write statement begins a
\* transaction: the committed content of the file
BeginTxn == [pallets |-> pallets, logs |-> logs, logseq |-> logseq,
             products |-> products, transaction_logs |-> transaction_logs]

----------------------------------------------------------------------------
(* process_scan of loop2.py (palletes.py has the same statements, without  *)
(* the confirmation), one SQL statement per step                           *)

\* Up to the connection: the payload is decoded (its pallet_id, item_name and
\* quantity drawn from ids, names and qtys), the operator confirms and names
\* the operation (the prompt is repeated until it is `entry` or `exit`).  An
\* answer that is not `yes` once stripped and lowered cancels.
Scan(p, ids, names, qtys) ==
    /\ proc[p].pc = "idle"
    /\ LogCount < MaxLog
    /\ UNCHANGED <<db, writer, txn, now>>
    /\ \E pallet_id \in ids, item_name \in names, quantity \in qtys,
          answer \in Answers, operation \in Operations :
        IF ~Confirmed(StripLower(answer))
        THEN /\ out' = "cancelled"
             /\ conn' = NoConnection
             /\ returned' = ReturnedNone
             /\ UNCHANGED proc
        ELSE /\ out' = "none"
             /\ conn' = NoConnection
             /\ returned' = Running
             /\ proc' = [proc EXCEPT ![p] =
                          [pc |-> "scanned", pallet_id |-> pallet_id,
                           item_name |-> item_name, quantity |-> quantity,
                           confirm |-> StripLower(answer),
                           operation |-> operation]]

\* process_scan is called with a text that is no well-formed payload (for
\* "null quantity": one whose pallet_id is one of ids)
ScanQrData(p, ids) ==
    /\ proc[p].pc = "idle"
    /\ LogCount < MaxLog
    /\ UNCHANGED <<db, writer, txn, now>>
    /\ out' = "none"
    /\ conn' = NoConnection
    /\ returned' = Running
    /\ \/ \E qr_data \in BadQrData \ {"null quantity"} :
            proc' = [proc EXCEPT ![p] = [pc |-> "called", qr_data |-> qr_data]]
       \/ \E pallet_id \in ids, item_name \in {"bolt"} :
            proc' = [proc EXCEPT ![p] =
                       [pc |-> "called", qr_data |-> "null quantity",
                        pallet_id |-> pallet_id, item_name |-> item_name]]

\* process_scan up to the connection, for such a text: json.loads fails and
\* the function says so and returns; pallet_info["pallet_id"] raises KeyError;
\* a payload with its three keys is printed, confirmed and given an operation
\* like any other, its quantity None.
Decode(p) ==
    /\ proc[p].pc = "called"
    /\ UNCHANGED <<db, writer, txn, now, conn>>
    /\ LET l == proc[p] IN
       IF l.qr_data = "not json"
       THEN /\ out' = "invalid QR code data"
            /\ returned' = ReturnedNone
            /\ proc' = [proc EXCEPT ![p] = Idle]
       ELSE IF l.qr_data = "no pallet_id"
       THEN /\ out' = "KeyError"
            /\ returned' = Raised
            /\ proc' = [proc EXCEPT ![p] = Idle]
       ELSE \E answer \in Answers, operation \in Operations :
            IF ~Confirmed(StripLower(answer))
            THEN /\ out' = "cancelled"
                 /\ returned' = ReturnedNone
                 /\ proc' = [proc EXCEPT ![p] = Idle]
            ELSE /\ proc' = [proc EXCEPT ![p] =
                          [pc |-> "scanned", pallet_id |-> l.pallet_id,
                           item_name |-> l.item_name, quantity |-> None,
                           confirm |-> StripLower(answer),
                           operation |-> operation]]
                 /\ UNCHANGED <<out, returned>>

\* The connection is opened, SELECT reads the pallet's row and the request is
\* validated.  A rejected request prints its message and returns; an accepted
\* one goes on to its UPDATE (existing pallet) or INSERT (new pallet) with the
\* row it read, the timestamp it took and the new_qty it computed.  On an
\* existing pallet, a quantity that is None (the payload's or the row's) makes
\* the arithmetic raise TypeError.
Select(p) ==
    /\ proc[p].pc = "scanned"
    /\ UNCHANGED <<db, writer, txn, now>>
    /\ LET l == proc[p]
           row == SelectQuantity(pallets, l.pallet_id)
           go(pc, new_qty) ==
               [pc |-> pc, pallet_id |-> l.pallet_id, item_name |-> l.item_name,
                quantity |-> l.quantity, confirm |-> l.confirm,
                operation |-> l.operation,
                row |-> row, timestamp |-> now, new_qty |-> new_qty]
       IN  IF RowFound(row)
           THEN IF IsNone(row[1]) \/ IsNone(l.quantity)
                THEN /\ out' = "TypeError"
                     /\ conn' = LeftOpen
                     /\ returned' = Raised
                     /\ proc' = [proc EXCEPT ![p] = Idle]
                ELSE
                IF l.operation = "exit" /\ InsufficientStock(row[1], l.quantity)
                THEN /\ out' = "not enough items"
                     /\ conn' = LeftOpen
                     /\ returned' = ReturnedNone
                     /\ proc' = [proc EXCEPT ![p] = Idle]
                ELSE /\ proc' = [proc EXCEPT ![p] =
                           go("update", NewQty(l.operation, row[1], l.quantity))]
                     /\ UNCHANGED <<out, conn, returned>>
           ELSE IF ExitOfUnknown(l.operation)
                THEN /\ out' = "pallet does not exist"
                     /\ conn' = LeftOpen
                     /\ returned' = ReturnedNone
                     /\ proc' = [proc EXCEPT ![p] = Idle]
                ELSE /\ proc' = [proc EXCEPT ![p] = go("insert", l.quantity)]
                     /\ UNCHANGED <<out, conn, returned>>

\* cursor.execute(UPDATE pallets ...) or cursor.execute(INSERT INTO pallets ...):
\* the statement opens the transaction and takes the write lock.  An INSERT of
\* a pallet_id that is in the table by now violates the PRIMARY KEY: the
\* exception leaves the `with` block, which rolls back.
WriteUnit(p) ==
    /\ proc[p].pc \in {"update", "insert"}
    /\ writer = Nobody
    /\ UNCHANGED <<db, now>>
    /\ LET l == proc[p] IN
       IF l.pc = "insert" /\ PrimaryKeyViolated(pallets, l.pallet_id)
       THEN /\ proc' = [proc EXCEPT ![p] = Idle]
            /\ out' = "storage error in the unit write"
            /\ conn' = LeftOpen
            /\ returned' = Raised
            /\ UNCHANGED <<writer, txn>>
       ELSE /\ writer' = p
            /\ txn' = [BeginTxn EXCEPT !.pallets =
                        IF l.pc = "update"
                        THEN UpdatePallet(pallets, l.pallet_id, l.new_qty, l.timestamp)
                        ELSE InsertPallet(pallets, l.pallet_id, l.item_name,
                                          l.new_qty, l.timestamp)]
            /\ proc' = [proc EXCEPT ![p].pc = "wrote"]
            /\ UNCHANGED <<out, conn, returned>>

\* log_operation up to its INSERT: the row is added inside the open transaction
\* with a timestamp of its own.  An existing pallet's row carries the operation,
\* qty_change and current_qty; a new pallet's is ("initial entry", new_qty, 0).
LogInsert(p) ==
    /\ proc[p].pc = "wrote"
    /\ writer = p
    /\ LET l == proc[p] IN
       txn' = [txn EXCEPT
                 !.logs = IF RowFound(l.row)
                          THEN InsertLog(txn.logs, txn.logseq, l.pallet_id, l.operation,
                                         l.quantity, l.row[1], l.new_qty, now)
                          ELSE InsertLog(txn.logs, txn.logseq, l.pallet_id,
                                         "initial entry", l.new_qty, 0, l.new_qty, now),
                 !.logseq = NextLogId(txn.logs, txn.logseq)]
    /\ proc' = [proc EXCEPT ![p].pc = "logged"]
    /\ UNCHANGED <<db, writer, now, out, conn, returned>>

----------------------------------------------------------------------------
(* scan_page's stock form and register_page of loop.py *)

\* the positions of register_page between its connection and its commit
RegisterPcs == {"register insert", "register wrote"}

\* register_page, submitted with valid fields, up to its INSERT: the batch id
\* is made (one of ids that no product and no other registration has: the
\* outcome of a repeated id depends on the schema of products, which the
\* script does not create), the connection opened and the clock read.
Register(p, ids, levels) ==
    /\ proc[p].pc = "idle"
    /\ UNCHANGED <<db, writer, txn, now>>
    /\ out' = "none"
    /\ conn' = NoConnection
    /\ returned' = Running
    /\ \E batch_id \in ids \ (DOMAIN products \cup
                {proc[q].batch_id : q \in {r \in Procs : proc[r].pc \in RegisterPcs}}),
          level \in levels, stock_percent \in InitialStocks :
        proc' = [proc EXCEPT ![p] =
                   [pc |-> "register insert", batch_id |-> batch_id,
                    level |-> level, stock_percent |-> stock_percent,
                    timestamp |-> now]]

\* cursor.execute(INSERT INTO products ...): opens the transaction and takes
\* the write lock.  No log row is written.
RegisterWrite(p) ==
    /\ proc[p].pc = "register insert"
    /\ writer = Nobody
    /\ writer' = p
    /\ LET l == proc[p] IN
       txn' = [BeginTxn EXCEPT !.products =
                 InsertProduct(products, l.batch_id, l.level, l.stock_percent,
                               l.timestamp)]
    /\ proc' = [proc EXCEPT ![p].pc = "register wrote"]
    /\ UNCHANGED <<db, now, out, conn, returned>>

\* scan_page up to the connection: the QR code names a batch (one of ids) and
\* the stock form is submitted with a change
StockScan(p, ids) ==
    /\ proc[p].pc = "idle"
    /\ LogCount < MaxLog
    /\ UNCHANGED <<db, writer, txn, now>>
    /\ \E batch_id \in ids, change \in StockChanges :
        /\ out' = "none"
        /\ conn' = NoConnection
        /\ returned' = Running
        /\ proc' = [proc EXCEPT ![p] =
                     [pc |-> "stock scanned", batch_id |-> batch_id,
                      change |-> change]]

\* The product is read and the change validated.  A SELECT whose text is no
\* statement raises into the page's outer handler, which shows the error and
\* returns with the connection open; no row found and a result outside
\* 0..100 are reported; in each case nothing is written.  The stock the form
\* adds the change to is that of the first row the SELECT gave: a number,
\* or the bytes of a BLOB, and then `current_stock + change` raises TypeError
\* outside the form's try, into the outer handler.
StockSelect(p) ==
    /\ proc[p].pc = "stock scanned"
    /\ UNCHANGED <<db, writer, txn, now>>
    /\ LET l == proc[p]
           product == SelectStock(products, l.batch_id)
           current_stock == product.rows[1]
       IN  IF product.raised
           THEN /\ out' = "storage error in the select"
                /\ conn' = LeftOpen
                /\ returned' = ReturnedNone
                /\ proc' = [proc EXCEPT ![p] = Idle]
           ELSE IF Len(product.rows) = 0
           THEN /\ out' = "batch not found"
                /\ conn' = LeftOpen
                /\ returned' = ReturnedNone
                /\ proc' = [proc EXCEPT ![p] = Idle]
           ELSE IF current_stock.type = "bytes"
           THEN /\ out' = "TypeError"
                /\ conn' = LeftOpen
                /\ returned' = ReturnedNone
                /\ proc' = [proc EXCEPT ![p] = Idle]
           ELSE IF ~StockInRange(NewStock(current_stock, l.change).value)
           THEN /\ out' = "stock out of range"
                /\ conn' = Closed
                /\ returned' = ReturnedNone
                /\ proc' = [proc EXCEPT ![p] = Idle]
           ELSE /\ proc' = [proc EXCEPT ![p] =
                      [pc |-> "stock update", batch_id |-> l.batch_id,
                       change |-> l.change, current_stock |-> current_stock,
                       new_stock |-> NewStock(current_stock, l.change),
                       timestamp |-> now]]
                /\ UNCHANGED <<out, conn, returned>>

\* cursor.execute(UPDATE products ...): opens the transaction, takes the
\* lock; new_stock is stored as sqlite3 binds it
StockWrite(p) ==
    /\ proc[p].pc = "stock update"
    /\ writer = Nobody
    /\ writer' = p
    /\ LET l == proc[p] IN
       txn' = [BeginTxn EXCEPT !.products =
                 UpdateStock(products, l.batch_id, l.new_stock, l.timestamp)]
    /\ proc' = [proc EXCEPT ![p].pc = "stock wrote"]
    /\ UNCHANGED <<db, now, out, conn, returned>>

\* cursor.execute(INSERT INTO transaction_logs ...), with the UPDATE's
\* timestamp; change, current_stock and new_stock are stored as sqlite3 binds
\* them
StockLog(p) ==
    /\ proc[p].pc = "stock wrote"
    /\ writer = p
    /\ LET l == proc[p] IN
       txn' = [txn EXCEPT !.transaction_logs =
                 InsertTransactionLog(txn.transaction_logs, l.batch_id, l.change,
                                      l.current_stock, l.new_stock, l.timestamp)]
    /\ proc' = [proc EXCEPT ![p].pc = "stock logged"]
    /\ UNCHANGED <<db, writer, now, out, conn, returned>>

\* scan_page up to the connection: the QR code names a batch (one of ids) and
\* the level form or the status form is submitted with a value of its selectbox
CategoryScan(p, ids, levels, statuses) ==
    /\ proc[p].pc = "idle"
    /\ UNCHANGED <<db, writer, txn, now>>
    /\ out' = "none"
    /\ conn' = NoConnection
    /\ returned' = Running
    /\ \E batch_id \in ids :
        \/ \E new_level \in levels :
              proc' = [proc EXCEPT ![p] =
                         [pc |-> "category scanned", batch_id |-> batch_id,
                          form |-> "level_form", value |-> new_level]]
        \/ \E new_status \in statuses :
              proc' = [proc EXCEPT ![p] =
                         [pc |-> "category scanned", batch_id |-> batch_id,
                          form |-> "status_form", value |-> new_status]]

\* The product is read: a SELECT whose text is no statement raises into the
\* page's outer handler; no row found is reported and the page returns.  The
\* two forms validate nothing; the submitted one reads the clock for its
\* UPDATE.
CategorySelect(p) ==
    /\ proc[p].pc = "category scanned"
    /\ UNCHANGED <<db, writer, txn, now>>
    /\ IF SelectStock(products, proc[p].batch_id).raised
       THEN /\ out' = "storage error in the select"
            /\ conn' = LeftOpen
            /\ returned' = ReturnedNone
            /\ proc' = [proc EXCEPT ![p] = Idle]
       ELSE IF Len(SelectStock(products, proc[p].batch_id).rows) = 0
       THEN /\ out' = "batch not found"
            /\ conn' = LeftOpen
            /\ returned' = ReturnedNone
            /\ proc' = [proc EXCEPT ![p] = Idle]
       ELSE /\ proc' = [proc EXCEPT ![p] =
                       [pc |-> "category update", batch_id |-> proc[p].batch_id,
                        form |-> proc[p].form, value |-> proc[p].value,
                        timestamp |-> now]]
            /\ UNCHANGED <<out, conn, returned>>

\* cursor.execute(UPDATE products SET level ...) or (... SET status ...) with
\* the timestamp the form has read: opens the transaction, takes the lock
CategoryWrite(p) ==
    /\ proc[p].pc = "category update"
    /\ writer = Nobody
    /\ writer' = p
    /\ LET l == proc[p] IN
       txn' = [BeginTxn EXCEPT !.products =
                 IF l.form = "level_form"
                 THEN UpdateLevel(products, l.batch_id, l.value, l.timestamp)
                 ELSE UpdateStatus(products, l.batch_id, l.value, l.timestamp)]
    /\ proc' = [proc EXCEPT ![p].pc = "category wrote"]
    /\ UNCHANGED <<db, now, out, conn, returned>>

----------------------------------------------------------------------------
(* The reports *)

\* view_logs up to fetchall(): the connection is opened and the SELECT run
ViewLogs(p) ==
    /\ proc[p].pc = "idle"
    /\ logs' = AfterSelect(logs)
    /\ proc' = [proc EXCEPT ![p] = [pc |-> "logs read", df |-> RecentLogs(logs)]]
    /\ out' = "none"
    /\ conn' = NoConnection
    /\ returned' = Running
    /\ UNCHANGED <<pallets, logseq, products, transaction_logs, writer, txn, now>>

\* reports_page up to pd.read_sql: a report type is selected (and a status or
\* a level, in the selectbox that "By Status" and "By Level" alone show), the
\* connection opened and the SELECT run
ReportsPage(p) ==
    /\ proc[p].pc = "idle"
    /\ products' = AfterSelect(products)
    /\ \E report_type \in ReportTypes :
       \E status \in IF report_type = "By Status" THEN Statuses ELSE {"Pending"},
          level \in IF report_type = "By Level" THEN Levels ELSE {"Raw"},
          due \in IF report_type = "Upcoming Deadlines"
                  THEN SUBSET DOMAIN products ELSE {{}} :
        proc' = [proc EXCEPT ![p] =
                   [pc |-> "report read",
                    df |-> ReportRows(products, report_type, status, level, due)]]
    /\ out' = "none"
    /\ conn' = NoConnection
    /\ returned' = Running
    /\ UNCHANGED <<pallets, logs, logseq, transaction_logs, writer, txn, now>>

\* home_page up to pd.read_sql
HomePage(p) ==
    /\ proc[p].pc = "idle"
    /\ products' = AfterSelect(products)
    /\ proc' = [proc EXCEPT ![p] = [pc |-> "home read", df |-> RecentProducts(products)]]
    /\ out' = "none"
    /\ conn' = NoConnection
    /\ returned' = Running
    /\ UNCHANGED <<pallets, logs, logseq, transaction_logs, writer, txn, now>>

\* view_logs' print of a row formats its three quantities with `:<8`, which
\* None does not support (TypeError)
Printable(log) ==
    /\ ~IsNone(log.quantity_change)
    /\ ~IsNone(log.previous_quantity)
    /\ ~IsNone(log.new_quantity)

\* The rows are printed or shown (or the page says there are none) and the
\* operation ends: view_logs by leaving its `with` block, the two pages after
\* conn.close().  view_logs raises at a row it cannot print.
ReportShown(p) ==
    /\ proc[p].pc \in {"logs read", "report read", "home read"}
    /\ LET raises == /\ proc[p].pc = "logs read"
                     /\ \E log \in proc[p].df : ~Printable(log)
       IN  /\ out' = IF raises THEN "TypeError"
                     ELSE IF proc[p].pc = "logs read" THEN "logs shown"
                     ELSE IF proc[p].df = {} THEN "no products found"
                     ELSE "products shown"
           /\ returned' = IF raises THEN Raised ELSE ReturnedNone
    /\ conn' = IF proc[p].pc = "logs read" THEN LeftOpen ELSE Closed
    /\ proc' = [proc EXCEPT ![p] = Idle]
    /\ UNCHANGED <<db, writer, txn, now>>

\* The SELECT of a report raises (the GUI script creates no products table,
\* and reads one that may not be there; I/O error): the exception leaves
\* view_logs, reports_page or home_page with the connection opened and not
\* closed, and nothing is shown.
ReportFailure(p) ==
    /\ proc[p].pc = "idle"
    /\ out' = "storage error in the select"
    /\ conn' = LeftOpen
    /\ returned' = Raised
    /\ UNCHANGED <<db, writer, txn, proc, now>>

----------------------------------------------------------------------------
(* Commit and rollback, the same in the three scripts *)

\* the positions of scan_page (loop.py) that a statement or the commit leaves
GuiPcs == {"stock update", "stock wrote", "stock logged",
           "category update", "category wrote"}

\* conn.commit() (in log_operation; after the INSERT or the UPDATE in
\* scan_page; after the QR image in register_page) makes the unit write and
\* the log row durable together.  process_scan's own conn.commit() and the
\* end of its `with` block then find no open transaction, and the function
\* returns with no conn.close(); scan_page goes on to st.experimental_rerun(),
\* which leaves the function before its conn.close(); register_page closes
\* its connection and shows the batch id.
Commit(p) ==
    /\ proc[p].pc \in {"logged", "stock logged", "category wrote", "register wrote"}
    /\ writer = p
    /\ pallets' = Committed(pallets, txn.pallets)
    /\ logs' = Committed(logs, txn.logs)
    /\ logseq' = Committed(logseq, txn.logseq)
    /\ products' = Committed(products, txn.products)
    /\ transaction_logs' = Committed(transaction_logs, txn.transaction_logs)
    /\ writer' = Nobody
    /\ txn' = NoTxn
    /\ proc' = [proc EXCEPT ![p] = Idle]
    /\ out' = IF proc[p].pc \in RegisterPcs THEN "registered" ELSE "completed"
    /\ conn' = IF proc[p].pc \in RegisterPcs THEN Closed ELSE LeftOpen
    /\ returned' = IF proc[p].pc \in GuiPcs THEN Rerun ELSE ReturnedNone
    /\ UNCHANGED now

\* the positions of process_scan and of scan_page before their SELECT
SelectPcs == {"scanned", "stock scanned", "category scanned"}

\* the statement that raises at each position, as the traceback names it
FailedAt(pc) ==
    IF pc \in SelectPcs
    THEN "storage error in the select"
    ELSE IF pc \in {"update", "insert", "stock update", "category update",
               "register insert"}
    THEN "storage error in the unit write"
    ELSE IF pc \in {"wrote", "stock wrote"}
    THEN "storage error in the log insert"
    ELSE "storage error in the commit"

\* A statement or the commit raises (disk full, I/O error, no such table,
\* `database is locked` after the busy timeout).  In process_scan the
\* exception leaves the `with` block, whose exit rolls back, and then the
\* function.  In scan_page a failure of the SELECT goes to the outer handler,
\* which shows the error and returns with the connection open; a failure
\* inside a form goes to the form's handler, which calls conn.rollback(),
\* and the page runs on to its conn.close().
\* register_page's handler shows the error and does neither: the page
\* returns with its connection open.  A connection whose INSERT failed holds
\* no lock.  After the INSERT, when the QR image raises or the commit fails
\* with `database is locked`, the connection stays behind with its
\* transaction open and the write lock held; when the commit fails with an
\* I/O error or a full disk, SQLite has rolled the transaction back itself
\* and the connection holds neither.
StorageFailure(p) ==
    /\ proc[p].pc \in SelectPcs \cup {"update", "insert", "wrote", "logged"}
                     \cup GuiPcs \cup RegisterPcs
    /\ LET mine == writer = p
           work == IF mine THEN txn ELSE BeginTxn
       IN /\ pallets' = RolledBack(pallets, work.pallets)
          /\ logs' = RolledBack(logs, work.logs)
          /\ logseq' = RolledBack(logseq, work.logseq)
          /\ products' = RolledBack(products, work.products)
          /\ transaction_logs' = RolledBack(transaction_logs, work.transaction_logs)
          /\ \E rolled_back \in IF proc[p].pc \in RegisterPcs
                                THEN BOOLEAN ELSE {TRUE} :
                /\ writer' = IF ~mine THEN writer
                             ELSE IF rolled_back THEN Nobody ELSE Leaked
                /\ txn' = IF mine /\ rolled_back THEN NoTxn ELSE txn
    /\ proc' = [proc EXCEPT ![p] = Idle]
    /\ out' = FailedAt(proc[p].pc)
    /\ conn' = IF proc[p].pc \in GuiPcs THEN Closed ELSE LeftOpen
    /\ returned' = IF proc[p].pc \in GuiPcs \cup RegisterPcs
                                     \cup {"stock scanned", "category scanned"}
                   THEN ReturnedNone ELSE Raised
    /\ UNCHANGED now

\* The garbage collector finalizes the connection that register_page left
\* behind: SQLite closes it, which drops its uncommitted INSERT and gives up
\* the write lock.
Finalize ==
    /\ writer = Leaked
    /\ writer' = Nobody
    /\ txn' = NoTxn
    /\ UNCHANGED <<db, proc, now, out, conn, returned>>

----------------------------------------------------------------------------
(* Specifications *)

AllIdle == \A q \in Procs : proc[q].pc = "idle"

\* The console ledger under a single sequential writer: a scan starts only
\* when no other is running.  Two pallets, one item name.
NextSeq ==
    \/ Tick
    \/ \E p \in Procs :
        \/ AllIdle /\ Scan(p, PalletIds, {"bolt"}, Quantities)
        \/ Select(p)
        \/ WriteUnit(p)
        \/ LogInsert(p)
        \/ Commit(p)
        \/ StorageFailure(p)

SpecSeq == Init /\ [][NextSeq]_vars

\* Several console scripts run against the same pallets.db and scan the same
\* pallet with quantities >= 0; their statements interleave.
Next ==
    \E p \in Procs :
        \/ Scan(p, {"P1"}, {"bolt"}, 0..MaxQty)
        \/ Select(p)
        \/ WriteUnit(p)
        \/ LogInsert(p)
        \/ Commit(p)
        \/ StorageFailure(p)

Spec == Init /\ [][Next]_vars

\* The console script and the GUI script on the same file, one request at a
\* time, on one pallet (payload quantities >= 0) and one batch; the QR code
\* scanned in the GUI names the batch or carries a text that closes the
\* quoted id of the SELECT.
NextAll ==
    \/ Tick
    \/ Finalize
    \/ \E p \in Procs :
        \/ AllIdle /\ Scan(p, {"P1"}, {"bolt"}, 0..MaxQty)
        \/ Select(p)
        \/ WriteUnit(p)
        \/ LogInsert(p)
        \/ AllIdle /\ Register(p, {"B1"}, {"Raw"})
        \/ RegisterWrite(p)
        \/ AllIdle /\ StockScan(p, {"B1", "x' OR '1'='1"})
        \/ StockSelect(p)
        \/ StockWrite(p)
        \/ StockLog(p)
        \/ Commit(p)
        \/ StorageFailure(p)

SpecAll == Init /\ [][NextAll]_vars

\* The console script under a single sequential writer, with payloads that
\* carry either item name and a quantity >= 0, on two pallets.
NextFrame ==
    \/ Tick
    \/ \E p \in {"w1"} :
        \/ Scan(p, PalletIds, ItemNames, 0..MaxQty)
        \/ Select(p)
        \/ WriteUnit(p)
        \/ LogInsert(p)
        \/ Commit(p)
        \/ StorageFailure(p)

SpecFrame == Init /\ [][NextFrame]_vars

\* The console script called with well-formed payloads and with texts that
\* are none, and its view of the logs, on one pallet, one request at a time.
NextDecode ==
    \E p \in {"w1"} :
        \/ Scan(p, {"P1"}, {"bolt"}, 0..MaxQty)
        \/ ScanQrData(p, {"P1"})
        \/ Decode(p)
        \/ Select(p)
        \/ WriteUnit(p)
        \/ LogInsert(p)
        \/ ViewLogs(p)
        \/ ReportShown(p)
        \/ Commit(p)
        \/ StorageFailure(p)

SpecDecode == Init /\ [][NextDecode]_vars

\* The console script and the GUI script with their reports, one request at
\* a time, on one pallet and one batch registered as Finished, with payload
\* quantities >= 0.
NextReports ==
    \/ Tick
    \/ Finalize
    \/ \E p \in {"w1"} :
        \/ Scan(p, {"P1"}, {"bolt"}, 0..MaxQty)
        \/ Select(p)
        \/ WriteUnit(p)
        \/ LogInsert(p)
        \/ Register(p, {"B1"}, {"Finished"})
        \/ RegisterWrite(p)
        \/ StockScan(p, {"B1"})
        \/ StockSelect(p)
        \/ StockWrite(p)
        \/ StockLog(p)
        \/ ViewLogs(p)
        \/ ReportsPage(p)
        \/ HomePage(p)
        \/ ReportShown(p)
        \/ ReportFailure(p)
        \/ Commit(p)
        \/ StorageFailure(p)

SpecReports == Init /\ [][NextReports]_vars

\* One session of the GUI script on two batches: registration, the level
\* form and the status form, one request at a time.
NextGui ==
    \/ Tick
    \/ Finalize
    \/ \E p \in {"w1"} :
        \/ Register(p, BatchIds, {"Raw"})
        \/ RegisterWrite(p)
        \/ CategoryScan(p, BatchIds, Levels, Statuses)
        \/ CategorySelect(p)
        \/ CategoryWrite(p)
        \/ Commit(p)
        \/ StorageFailure(p)

SpecGui == Init /\ [][NextGui]_vars

\* the console script (the GUI script) has touched the file or is running
ConsoleInUse ==
    \/ pallets # << >>
    \/ \E q \in Procs : proc[q].pc \in {"scanned", "update", "insert", "wrote", "logged"}

GuiInUse ==
    \/ products # << >>
    \/ \E q \in Procs : proc[q].pc \in {"stock scanned"} \cup GuiPcs \cup RegisterPcs

\* Two sessions of the same script at once: of the console script, on the
\* same pallet with payload quantities >= 0, or of the GUI script, on the same
\* batch.  Their statements interleave.
NextRace ==
    \/ Finalize
    \/ \E p \in Procs :
        \/ ~GuiInUse /\ Scan(p, {"P1"}, {"bolt"}, 0..MaxQty)
        \/ Select(p)
        \/ WriteUnit(p)
        \/ LogInsert(p)
        \/ ~ConsoleInUse /\ Register(p, {"B1"}, {"Raw"})
        \/ RegisterWrite(p)
        \/ ~ConsoleInUse /\ StockScan(p, {"B1"})
        \/ StockSelect(p)
        \/ StockWrite(p)
        \/ StockLog(p)
        \/ Commit(p)
        \/ StorageFailure(p)

SpecRace == Init /\ [][NextRace]_vars

\* two sessions of the GUI script on one batch, with the clock: a stock form
\* and a level form whose UPDATEs wait for each other's write lock, so that a
\* timestamp read before the wait is written after it
NextForms ==
    \/ Tick
    \/ Finalize
    \/ \E p \in Procs :
        \/ Register(p, {"B1"}, {"Raw"})
        \/ RegisterWrite(p)
        \/ StockScan(p, {"B1"})
        \/ StockSelect(p)
        \/ StockWrite(p)
        \/ StockLog(p)
        \/ CategoryScan(p, {"B1"}, {"Finished"}, {"Pending"})
        \/ CategorySelect(p)
        \/ CategoryWrite(p)
        \/ Commit(p)
        \/ StorageFailure(p)

SpecForms == Init /\ [][NextForms]_vars

\* the batch ids of SpecQuote: one with no quote, the two that register_page
\* makes for the companies O'Neil and 'or (product 1--), which hold one
RegisteredIds == {"B1", "O'N-WID-260201-AB12", "'OR-1---260201-AB12"}

\* the batch ids the QR codes scanned in SpecQuote carry: those of the
\* registered batches that hold a quote, and a text that is no batch's id
QuotedIds == (RegisteredIds \ {"B1"}) \cup {"x' OR '1'='1"}

\* One session of the GUI script, one request at a time: batches whose ids
\* hold a quote are registered beside one whose id holds none, and their QR
\* codes scanned for the stock form and the level form.
NextQuote ==
    \/ Finalize
    \/ \E p \in {"w1"} :
        \/ Register(p, RegisteredIds, {"Raw"})
        \/ RegisterWrite(p)
        \/ StockScan(p, QuotedIds)
        \/ StockSelect(p)
        \/ StockWrite(p)
        \/ StockLog(p)
        \/ CategoryScan(p, QuotedIds, {"Finished"}, {})
        \/ CategorySelect(p)
        \/ CategoryWrite(p)
        \/ Commit(p)
        \/ StorageFailure(p)

SpecQuote == Init /\ [][NextQuote]_vars

----------------------------------------------------------------------------
(* The ledger's properties *)

\* the log rows of one pallet, in the order of the table
RowsOf(rows, id) ==
    LET OfId(r) == r.pallet_id = id IN SelectSeq(rows, OfId)

\* the signed delta of a log row: +quantity_change for the initial entry and
\* for an entry, -quantity_change for an exit, quantity_change itself for the
\* GUI's stock update
SignedDelta(operation, quantity_change) ==
    IF operation = "exit" THEN 0 - quantity_change ELSE quantity_change

RECURSIVE SumDeltas(_)
SumDeltas(rows) ==
    IF rows = << >> THEN 0
    ELSE SignedDelta(Head(rows).operation, Head(rows).quantity_change)
         + SumDeltas(Tail(rows))

InLogIdOrder(rows) ==
    \A i, j \in 1..Len(rows) : i < j => rows[i].log_id < rows[j].log_id

\* the quantity a replay of the pallet's rows gives: the initial-entry row's
\* quantity, then the signed deltas of the later rows
Replayed(rows) == rows[1].new_quantity + SumDeltas(Tail(rows))

Reconciled(id) ==
    LET rows == RowsOf(logs, id)
    IN  /\ rows # << >>
        /\ InLogIdOrder(rows)
        /\ rows[1].operation = "initial entry"
        /\ pallets[id].quantity = Replayed(rows)

\* C1: under a single sequential writer, in every state (after accepted,
\* rejected, cancelled and failed calls alike) each pallet's stored quantity
\* equals the quantity of its initial-entry log row plus the sum, in log_id
\* order, of the signed deltas of its later log rows.
Conservation == \A id \in DOMAIN pallets : Reconciled(id)

\* C1's case: a pallet with an initial entry, an entry and an exit behind it
ConservationWitness ==
    /\ AllIdle
    /\ \E id \in DOMAIN pallets :
        LET rows == RowsOf(logs, id)
        IN  /\ Len(rows) = 3
            /\ \E i \in 2..3 : rows[i].operation = "entry" /\ rows[i].quantity_change > 0
            /\ \E i \in 2..3 : rows[i].operation = "exit" /\ rows[i].quantity_change > 0

\* C2: every unit's quantity is >= 0 in every reachable state, whatever
\* integer the payload carries.
NonNegativeQuantity == \A id \in DOMAIN pallets : pallets[id].quantity >= 0

(* Steps of one request, as seen from outside *)

\* p's SELECT returns and its validation runs
Selecting(p) ==
    /\ proc[p].pc = "scanned"
    /\ proc'[p] # proc[p]
    /\ out' # "storage error in the select"

\* p's commit returns
Committing(p) == proc[p].pc = "logged" /\ proc'[p] = Idle /\ out' = "completed"

\* p's request ends in a storage failure after its unit write
Failing(p) ==
    /\ proc[p].pc \in {"wrote", "logged"}
    /\ proc'[p] = Idle
    /\ out' \in {"storage error in the log insert", "storage error in the commit"}

\* rows' is rows with exactly one row appended
OneRowAppended(rows, rows2) ==
    /\ Len(rows2) = Len(rows) + 1
    /\ SubSeq(rows2, 1, Len(rows)) = rows

IsPrefix(rows, rows2) ==
    /\ Len(rows) <= Len(rows2)
    /\ SubSeq(rows2, 1, Len(rows)) = rows

\* every pallet but id has the row it had
OthersUnchanged(id) ==
    /\ DOMAIN pallets \ {id} = DOMAIN pallets' \ {id}
    /\ \A o \in DOMAIN pallets \ {id} : pallets'[o] = pallets[o]

\* C3: an exit on an existing unit that asks for more than the unit holds is
\* rejected, and the request, from its scan to its return, leaves the units
\* table (quantity and last_updated included) and the log table as they were.
ExitBeyondStockRejected ==
    [][\A p \in Procs :
        /\ (proc[p].pc = "idle" /\ proc'[p].pc = "scanned") => db' = db
        /\ ( /\ Selecting(p)
             /\ proc[p].operation = "exit"
             /\ proc[p].pallet_id \in DOMAIN pallets
             /\ proc[p].quantity > pallets[proc[p].pallet_id].quantity )
           => /\ proc'[p] = Idle
              /\ out' = "not enough items"
              /\ db' = db
      ]_vars

\* C3's case: an exit was just rejected for want of stock, on a pallet whose
\* last update lies in the past
ExitBeyondStockWitness ==
    /\ out = "not enough items"
    /\ AllIdle
    /\ \E id \in DOMAIN pallets :
        pallets[id].quantity > 0 /\ pallets[id].last_updated < now

\* C4: an exit against a unit_id that is absent is rejected: no unit row is
\* created, no log row is appended, and the unit is still absent afterwards.
ExitOfAbsentRejected ==
    [][\A p \in Procs :
        ( /\ Selecting(p)
          /\ proc[p].operation = "exit"
          /\ proc[p].pallet_id \notin DOMAIN pallets )
        => /\ proc'[p] = Idle
           /\ out' = "pallet does not exist"
           /\ db' = db
           /\ proc[p].pallet_id \notin DOMAIN pallets'
      ]_vars

\* C4's case: an exit of an unknown pallet was just rejected while another
\* pallet is in the store
ExitOfAbsentWitness ==
    /\ out = "pallet does not exist"
    /\ AllIdle
    /\ DOMAIN pallets # {}
    /\ DOMAIN pallets # PalletIds
    /\ logs # << >>

\* C5: an entry against a unit_id that is absent is accepted, and its commit
\* creates the unit with quantity = payload.quantity and appends exactly one
\* log row for it: the initial entry, with previous_quantity = 0 and
\* new_quantity = quantity_change = payload.quantity.
EntryOfAbsentCreates ==
    [][\A p \in Procs :
        LET id == proc[p].pallet_id
            q == proc[p].quantity
        IN  /\ ( /\ Selecting(p)
                 /\ proc[p].operation = "entry"
                 /\ id \notin DOMAIN pallets )
               => proc'[p].pc = "insert" /\ db' = db
            /\ ( /\ Committing(p)
                 /\ proc[p].operation = "entry"
                 /\ id \notin DOMAIN pallets )
               => /\ id \in DOMAIN pallets'
                  /\ pallets'[id].quantity = q
                  /\ OthersUnchanged(id)
                  /\ OneRowAppended(logs, logs')
                  /\ Len(RowsOf(logs', id)) = 1
                  /\ LET r == logs'[Len(logs')]
                     IN  /\ r.pallet_id = id
                         /\ r.operation = "initial entry"
                         /\ r.previous_quantity = 0
                         /\ r.new_quantity = q
                         /\ r.quantity_change = q
      ]_vars

\* C5's case: a pallet just created with a positive quantity, beside an older
\* pallet
EntryOfAbsentWitness ==
    /\ out = "completed"
    /\ AllIdle
    /\ Len(logs) > 1
    /\ LET r == logs[Len(logs)]
       IN  r.operation = "initial entry" /\ r.new_quantity = MaxQty

\* C6: for an existing unit holding c and a payload quantity q, an entry is
\* always accepted and its commit leaves c + q; an exit is accepted exactly
\* when c >= q and its commit leaves c - q; the commit appends exactly one log
\* row, with previous_quantity = c and new_quantity = the resulting quantity.
ExistingUnitTransaction ==
    [][\A p \in Procs :
        LET id == proc[p].pallet_id
            q == proc[p].quantity
            op == proc[p].operation
        IN  /\ (Selecting(p) /\ id \in DOMAIN pallets)
               => /\ db' = db
                  /\ proc'[p].pc \in {"update", "idle"}
                  /\ op = "entry" => proc'[p].pc = "update"
                  /\ op = "exit" =>
                       (proc'[p].pc = "update" <=> pallets[id].quantity >= q)
            /\ (Committing(p) /\ id \in DOMAIN pallets)
               => /\ pallets'[id].quantity =
                       (IF op = "entry" THEN pallets[id].quantity + q
                                        ELSE pallets[id].quantity - q)
                  /\ OneRowAppended(logs, logs')
                  /\ LET r == logs'[Len(logs')]
                     IN  /\ r.pallet_id = id
                         /\ r.operation = op
                         /\ r.quantity_change = q
                         /\ r.previous_quantity = pallets[id].quantity
                         /\ r.new_quantity = pallets'[id].quantity
      ]_vars

\* C6's case: an exit of all a pallet held was just committed and left 0
ExistingUnitWitness ==
    /\ out = "completed"
    /\ AllIdle
    /\ logs # << >>
    /\ LET r == logs[Len(logs)]
       IN  /\ r.operation = "exit"
           /\ r.quantity_change > 0
           /\ r.new_quantity = 0
           /\ pallets[r.pallet_id].quantity = 0

\* every pallet has log rows and holds the quantity its last row gives it,
\* and every log row is of a pallet in the store
Paired ==
    /\ \A id \in DOMAIN pallets :
        LET rows == RowsOf(logs, id)
        IN  rows # << >> /\ pallets[id].quantity = rows[Len(rows)].new_quantity
    /\ \A i \in 1..Len(logs) : logs[i].pallet_id \in DOMAIN pallets

\* C7: a storage failure inside a transaction, after the unit write or after
\* the log insert, leaves the committed units table and log table as they
\* were before the transaction; the committed content changes only by the
\* commit of the connection that holds the write lock, and that step makes a
\* unit write and its log row durable together.  In no state is a unit write
\* durable without its log row or a log row without its unit write.
Atomicity ==
    /\ []Paired
    /\ [][ /\ \A p \in Procs : Failing(p) => db' = db
           /\ db' # db => \E p \in Procs : writer = p /\ Committing(p)
           /\ pallets' # pallets => logs' # logs
           /\ logs' # logs =>
                /\ OneRowAppended(logs, logs')
                /\ LET r == logs'[Len(logs')]
                   IN  /\ r.pallet_id \in DOMAIN pallets'
                       /\ pallets'[r.pallet_id].quantity = r.new_quantity
                       /\ OthersUnchanged(r.pallet_id)
         ]_vars

\* C7's case: the log insert just failed, after the unit write, in a store
\* that holds a pallet
AtomicityWitness ==
    /\ out = "storage error in the log insert"
    /\ AllIdle
    /\ writer = Nobody
    /\ DOMAIN pallets # {}

\* C8: concurrent transactions on the same unit are serialized: whenever no
\* transaction is running, the unit's quantity equals its initial quantity
\* plus the signed deltas of all its committed log rows.
SerializedConservation == AllIdle => \A id \in DOMAIN pallets : Reconciled(id)

\* the rows of the connection that holds the write lock, committed or not,
\* and the greatest log_id the store has on record as given (sqlite_sequence)
WorkingLogs == IF writer = Nobody THEN logs ELSE txn.logs
WorkingTransactionLogs ==
    IF writer = Nobody THEN transaction_logs ELSE txn.transaction_logs
WorkingLogseq == IF writer = Nobody THEN logseq ELSE txn.logseq

\* every step leaves the committed rows of both log tables as they were and
\* appends at most one
RowsKept ==
    /\ IsPrefix(logs, logs')
    /\ IsPrefix(transaction_logs, transaction_logs')
    /\ Len(logs') + Len(transaction_logs') <= Len(logs) + Len(transaction_logs) + 1

\* C9 as stated: the transaction log is append-only, and each newly appended
\* row receives a log_id greater than every log_id assigned before it, so
\* that no log_id is assigned twice: a row written to logs gets a log_id
\* above the greatest one on record, and that record never goes back.
LogIdsNeverReused ==
    [][ /\ RowsKept
        /\ Len(WorkingLogs') > Len(WorkingLogs) =>
             WorkingLogs'[Len(WorkingLogs')].log_id > WorkingLogseq
        /\ WorkingLogseq' >= WorkingLogseq
      ]_vars

\* C9, amended: the transaction log is append-only: every step leaves the
\* rows of both log tables as they were, appending at most one; a row
\* written to logs or to transaction_logs gets an id (log_id, rowid) greater
\* than that of every row of its table, committed or written earlier in the
\* same transaction, so that no two rows of a table ever share an id.  (The
\* id of a row whose transaction was rolled back is given again.)
AppendOnlyLog ==
    [][ /\ RowsKept
        /\ Len(logs') > Len(logs) =>
             \A i \in 1..Len(logs) : logs'[Len(logs')].log_id > logs[i].log_id
        /\ Len(transaction_logs') > Len(transaction_logs) =>
             \A i \in 1..Len(transaction_logs) :
                transaction_logs'[Len(transaction_logs')].rowid
                    > transaction_logs[i].rowid
        /\ Len(WorkingLogs') > Len(WorkingLogs) =>
             /\ IsPrefix(WorkingLogs, WorkingLogs')
             /\ \A i \in 1..Len(WorkingLogs) :
                   WorkingLogs'[Len(WorkingLogs')].log_id > WorkingLogs[i].log_id
        /\ Len(WorkingTransactionLogs') > Len(WorkingTransactionLogs) =>
             /\ IsPrefix(WorkingTransactionLogs, WorkingTransactionLogs')
             /\ \A i \in 1..Len(WorkingTransactionLogs) :
                   WorkingTransactionLogs'[Len(WorkingTransactionLogs')].rowid
                       > WorkingTransactionLogs[i].rowid
      ]_vars

\* C9's case: logs holds two rows, and a commit has just failed, so that the
\* log row of its transaction, which had the log_id 3, was rolled back
AppendOnlyLogWitness ==
    /\ Len(logs) = 2
    /\ logs[2].log_id > logs[1].log_id
    /\ logseq = 2
    /\ out = "storage error in the commit"
    /\ AllIdle
    /\ writer = Nobody

\* the rows of logs, committed or written in an open transaction, add up
LogsRowsAdd ==
    \A i \in 1..Len(WorkingLogs) :
        LET r == WorkingLogs[i]
        IN  r.new_quantity =
              r.previous_quantity + SignedDelta(r.operation, r.quantity_change)

\* C10: every log row written by any variant holds integers that satisfy
\* new_quantity = previous_quantity + signed_delta(operation, quantity_change)
\* (in transaction_logs: new_stock = previous_stock + quantity_change).
LogRowArithmetic ==
    /\ LogsRowsAdd
    /\ \A i \in 1..Len(WorkingTransactionLogs) :
        LET r == WorkingTransactionLogs[i]
        IN  /\ r.quantity_change.storage = "INTEGER"
            /\ r.previous_stock.storage = "INTEGER"
            /\ r.new_stock.storage = "INTEGER"
            /\ r.new_stock.value =
                  r.previous_stock.value
                    + SignedDelta(r.operation, r.quantity_change.value)

----------------------------------------------------------------------------
(* The GUI's ledger: products and transaction_logs *)

\* the transaction_logs rows of one batch, in the order of the table
RowsOfBatch(rows, id) ==
    LET OfId(r) == r.batch_id = id IN SelectSeq(rows, OfId)

\* the sum of the changes of rows of transaction_logs
RECURSIVE SumChanges(_)
SumChanges(rows) ==
    IF rows = << >> THEN 0
    ELSE Head(rows).quantity_change.value + SumChanges(Tail(rows))

\* C11: in the GUI variant the log alone reconstructs the current state: for
\* every batch in products, transaction_logs holds a row recording its
\* creation (previous stock 0, new stock the registered stock), and the
\* replay of the batch's rows gives its current stock_percent.
GuiLogReconstructs ==
    \A b \in DOMAIN products :
        LET rows == RowsOfBatch(transaction_logs, b)
        IN  /\ rows # << >>
            /\ rows[1].previous_stock.value = 0
            /\ products[b].stock_percent.value
                  = rows[1].new_stock.value + SumChanges(Tail(rows))

\* the products table as the connection holding the write lock sees it
WorkingProducts == IF writer = Nobody THEN products ELSE txn.products

\* the stored value is a number within 0..100
StoredInRange(stock_percent) ==
    /\ stock_percent.storage = "INTEGER"
    /\ StockInRange(stock_percent.value)

\* C12: a stock update whose value current + change (current being the stock
\* the page has read) falls outside 0..100 is rejected and leaves products and
\* transaction_logs (and the rest of the file) as they were; and in every
\* state every batch's stock_percent, committed or written in an open
\* transaction, is a number within 0..100.
BoundedStock ==
    /\ [](/\ \A b \in DOMAIN products : StoredInRange(products[b].stock_percent)
          /\ \A b \in DOMAIN WorkingProducts :
                StoredInRange(WorkingProducts[b].stock_percent))
    /\ [][\A p \in Procs :
            ( /\ proc[p].pc = "stock scanned"
              /\ proc'[p] # proc[p]
              /\ out' # "storage error in the select"
              /\ Len(SelectStock(products, proc[p].batch_id).rows) > 0
              /\ SelectStock(products, proc[p].batch_id).rows[1].type # "bytes"
              /\ ~StockInRange(SelectStock(products, proc[p].batch_id).rows[1].value
                                 + proc[p].change) )
            => /\ proc'[p] = Idle
               /\ out' = "stock out of range"
               /\ db' = db
         ]_vars

\* p's commit of a level or status change returns
CommittingCategory(p) ==
    proc[p].pc = "category wrote" /\ proc'[p] = Idle /\ out' = "completed"

\* C13: a level change or a status change to any value of its domain is
\* accepted whatever the current value (once the page has read the batch),
\* and its commit sets the targeted field
\* of the targeted batch to that value and leaves its stock_percent and its
\* other categorical field, every other batch, and the log tables unchanged;
\* nothing is durable before the commit.
CategoryChangeFrame ==
    [][\A p \in Procs :
        LET l == proc[p]
            b == l.batch_id
        IN  /\ ( /\ l.pc = "category scanned"
                 /\ proc'[p] # l
                 /\ out' # "storage error in the select"
                 /\ b \in DOMAIN products )
               => proc'[p].pc = "category update" /\ db' = db
            /\ (l.pc = "category update" /\ proc'[p].pc = "category wrote")
               => db' = db
            /\ CommittingCategory(p)
               => /\ DOMAIN products' = DOMAIN products
                  /\ \A o \in DOMAIN products \ {b} : products'[o] = products[o]
                  /\ products'[b].stock_percent = products[b].stock_percent
                  /\ l.form = "level_form" =>
                       /\ products'[b].level = l.value
                       /\ products'[b].status = products[b].status
                  /\ l.form = "status_form" =>
                       /\ products'[b].status = l.value
                       /\ products'[b].level = products[b].level
                  /\ transaction_logs' = transaction_logs
                  /\ <<pallets, logs, logseq>>' = <<pallets, logs, logseq>>
      ]_vars

\* C13's case: beside another batch, a batch whose level and status were both
\* changed, the last change just committed at a later time than registration
CategoryChangeWitness ==
    /\ out = "completed"
    /\ AllIdle
    /\ DOMAIN products = BatchIds
    /\ \E b \in DOMAIN products :
        /\ products[b].level = "Shipped"
        /\ products[b].status = "Delayed"
        /\ products[b].last_updated = 1
        /\ \E o \in DOMAIN products : products[o].last_updated = 0

----------------------------------------------------------------------------
(* Connections, reports and payloads *)

\* C14: every operation that opens a connection has closed it by the time it
\* ends, whatever the path: no operation ends on a path that opened a
\* connection and called no conn.close().
ConnectionsReleased == conn # LeftOpen

\* the positions of a report between its SELECT and its display
ReportPcs == {"logs read", "report read", "home read"}

\* C15: the reporting operations are read-only: the steps of view_logs,
\* reports_page and home_page, from the SELECT to the display or to the
\* failure of the SELECT, leave the units tables and the log tables
\* unchanged, for every report type; they take no write lock and open no
\* transaction, and what they show are rows of the committed tables.
ReportsReadOnly ==
    [][\A p \in Procs :
        /\ ( \/ proc[p].pc = "idle" /\ proc'[p].pc \in ReportPcs
             \/ proc[p].pc \in ReportPcs /\ proc'[p] = Idle
             \/ proc[p].pc = "idle" /\ proc'[p] = Idle
                   /\ out' = "storage error in the select" )
           => db' = db
        /\ ( \/ proc[p].pc = "idle" /\ proc'[p].pc \in ReportPcs
             \/ proc[p].pc \in ReportPcs /\ proc'[p] = Idle )
           => writer' = writer /\ txn' = txn
        /\ (proc[p].pc = "idle" /\ proc'[p].pc = "logs read")
           => proc'[p].df \subseteq {logs[i] : i \in 1..Len(logs)}
        /\ (proc[p].pc = "idle" /\ proc'[p].pc \in {"report read", "home read"})
           => proc'[p].df \subseteq DOMAIN products
      ]_vars

\* C15's case: a report has selected rows from a file whose four tables all
\* hold rows
ReportsReadOnlyWitness ==
    /\ \E p \in Procs : proc[p].pc \in ReportPcs /\ proc[p].df # {}
    /\ DOMAIN pallets # {}
    /\ DOMAIN products # {}
    /\ Len(logs) > 1
    /\ transaction_logs # << >>

\* p's call of process_scan has a text that is no well-formed payload
Malformed(p) ==
    \/ proc[p].pc = "called"
    \/ /\ proc[p].pc \in {"scanned", "update", "insert", "wrote", "logged"}
       /\ IsNone(proc[p].quantity)

\* C16: a scanned payload that is not parseable as the payload schema, or
\* that lacks the unit identifier, never reaches the ledger (no step of its
\* processing changes the units table or the log table), and when its
\* processing ends it has been reported as a decode failure (or has met a
\* storage failure), not as a ledger validation rejection or a completed
\* transaction.
DecodeFailureSurfaced ==
    [][\A p \in Procs :
        (Malformed(p) /\ proc'[p] # proc[p])
        => /\ db' = db
           /\ proc'[p] = Idle =>
                out' \in {"invalid QR code data", "KeyError", "TypeError", "cancelled",
                          "storage error in the select",
                          "storage error in the unit write",
                          "storage error in the log insert",
                          "storage error in the commit"}
      ]_vars

----------------------------------------------------------------------------
(* Frame, lifecycle and outcomes of the console ledger *)

\* C17: an accepted entry or exit on an existing unit changes only that
\* unit's quantity and last_updated: the unit keeps its unit_id and its
\* item_name whatever label the payload carries, every other unit's row and
\* every other unit's log rows are unchanged; and no step at all changes the
\* unit_id or the item_name of a unit in the store.
EntryExitFrame ==
    [][ /\ \A id \in DOMAIN pallets :
            /\ id \in DOMAIN pallets'
            /\ pallets'[id].item_name = pallets[id].item_name
        /\ \A p \in Procs :
            LET id == proc[p].pallet_id
            IN  (Committing(p) /\ id \in DOMAIN pallets)
                => /\ DOMAIN pallets' = DOMAIN pallets
                   /\ pallets'[id].item_name = pallets[id].item_name
                   /\ OthersUnchanged(id)
                   /\ \A o \in PalletIds \ {id} : RowsOf(logs', o) = RowsOf(logs, o)
                   /\ IsPrefix(RowsOf(logs, id), RowsOf(logs', id))
      ]_vars

\* C17's case: beside another pallet, an entry or exit on an existing pallet,
\* from a payload whose label is not the pallet's item_name, has written a
\* new quantity and its log row and is about to commit
EntryExitFrameWitness ==
    \E p \in Procs :
        /\ proc[p].pc = "logged"
        /\ RowFound(proc[p].row)
        /\ proc[p].item_name # pallets[proc[p].pallet_id].item_name
        /\ proc[p].new_qty # pallets[proc[p].pallet_id].quantity
        /\ proc[p].timestamp # pallets[proc[p].pallet_id].last_updated
        /\ DOMAIN pallets = PalletIds

\* the positions, among a pallet's log rows, of its initial-entry rows
InitialEntries(rows) ==
    {i \in 1..Len(rows) : rows[i].operation = "initial entry"}

\* C18: in every state a pallet_id is in pallets if and only if logs holds an
\* initial-entry row for it; that row is the pallet's only initial-entry row
\* and has the smallest log_id of the pallet's rows; and a pallet in the store
\* is in the store in every later state.
Lifecycle ==
    /\ [](\A id \in PalletIds :
            LET rows == RowsOf(logs, id)
            IN  /\ id \in DOMAIN pallets <=> InitialEntries(rows) # {}
                /\ Cardinality(InitialEntries(rows)) <= 1
                /\ \A i \in InitialEntries(rows), j \in 1..Len(rows) :
                       j # i => rows[i].log_id < rows[j].log_id)
    /\ [][\A id \in DOMAIN pallets : id \in DOMAIN pallets']_vars

\* C18's case: a pallet with an initial entry and later rows, an exit among
\* them, after a unit write that failed
LifecycleWitness ==
    /\ AllIdle
    /\ out = "storage error in the unit write"
    /\ \E id \in DOMAIN pallets :
        LET rows == RowsOf(logs, id)
        IN  /\ Len(rows) >= 3
            /\ \E i \in 1..Len(rows) : rows[i].operation = "exit"

\* C19: no validation error is swallowed: a rejected transaction (an exit
\* against an absent unit, an exit beyond the stock, a stock change out of
\* range) gives its caller an error outcome, which is neither of the outcomes
\* an accepted transaction gives its caller (None from process_scan, the
\* rerun from scan_page).
TypedErrorOutcome ==
    out \in {"pallet does not exist", "not enough items", "stock out of range"}
    => returned \notin {ReturnedNone, Rerun}

----------------------------------------------------------------------------
(* The current-state tables against the logs *)

\* r2 is the row that follows r1 in log_id order among rows
NextById(rows, r1, r2) ==
    /\ r1.log_id < r2.log_id
    /\ \A k \in 1..Len(rows) :
          ~(r1.log_id < rows[k].log_id /\ rows[k].log_id < r2.log_id)

\* C20: under a single sequential writer the current-state table and the log
\* never diverge: in every committed state, a unit that has log rows holds the
\* new quantity of its row with the greatest log_id, and of two consecutive
\* rows of a unit the later one's previous quantity is the earlier one's new
\* quantity; for pallets and logs, and for products and transaction_logs
\* (whose rows follow one another in the order of the table).  scan_page
\* does not keep it for a batch whose id holds a quote: the stock it logs as
\* the previous one is that of the first row of the table.
NeverDiverge ==
    /\ \A id \in PalletIds :
        LET rows == RowsOf(logs, id)
        IN  rows # << >> =>
              /\ id \in DOMAIN pallets
              /\ \A i \in 1..Len(rows) :
                    (\A j \in 1..Len(rows) : rows[j].log_id <= rows[i].log_id)
                    => pallets[id].quantity = rows[i].new_quantity
              /\ \A i, j \in 1..Len(rows) :
                    NextById(rows, rows[i], rows[j])
                    => rows[j].previous_quantity = rows[i].new_quantity
    /\ \A b \in {transaction_logs[i].batch_id : i \in 1..Len(transaction_logs)} :
        LET rows == RowsOfBatch(transaction_logs, b)
        IN  rows # << >> =>
              /\ b \in DOMAIN products
              /\ products[b].stock_percent.value = rows[Len(rows)].new_stock.value
              /\ \A i \in 1..(Len(rows) - 1) :
                    rows[i + 1].previous_stock.value = rows[i].new_stock.value

----------------------------------------------------------------------------
(* Interleaved writers *)

\* p read the pallet as absent and is about to INSERT it, and the pallet has
\* been committed by another process since
LostTheRace(p) ==
    /\ proc[p].pc = "insert"
    /\ proc[p].pallet_id \in DOMAIN pallets

\* C21: when two processes run an entry for the same absent pallet_id
\* concurrently, the file never holds more than one initial-entry row for the
\* pallet, and holds exactly one whenever the pallet is in pallets; the
\* process that commits first stores its own payload and appends its one
\* initial-entry row; the process that lost the race fails in its INSERT with
\* a storage error that reaches its caller, and its step changes no table and
\* opens no transaction.
ConcurrentFirstRegistration ==
    /\ [](\A id \in PalletIds :
            Cardinality(InitialEntries(RowsOf(logs, id)))
                = IF id \in DOMAIN pallets THEN 1 ELSE 0)
    /\ [][\A p \in Procs :
            /\ (LostTheRace(p) /\ proc'[p] # proc[p])
               => /\ proc'[p] = Idle
                  /\ out' = "storage error in the unit write"
                  /\ returned' = Raised
                  /\ db' = db
                  /\ writer' = writer
                  /\ txn' = txn
            /\ (Committing(p) /\ ~RowFound(proc[p].row))
               => LET id == proc[p].pallet_id
                  IN  /\ id \notin DOMAIN pallets
                      /\ id \in DOMAIN pallets'
                      /\ pallets'[id].quantity = proc[p].quantity
                      /\ OneRowAppended(logs, logs')
                      /\ logs'[Len(logs')].pallet_id = id
                      /\ logs'[Len(logs')].operation = "initial entry"
                      /\ logs'[Len(logs')].new_quantity = proc[p].quantity
      ]_vars

\* C21's case: both processes read the pallet as absent; one has committed it
\* with its initial-entry row and returned, the other is at its INSERT with a
\* different quantity
ConcurrentFirstRegistrationWitness ==
    \E p, q \in Procs :
        /\ p # q
        /\ LostTheRace(p)
        /\ proc[q].pc = "idle"
        /\ out = "completed"
        /\ Len(logs) = 1
        /\ logs[1].operation = "initial entry"
        /\ proc[p].quantity # pallets[proc[p].pallet_id].quantity

\* the quantities and the stock percentages that are in the file or in the
\* open transaction, and those a process has computed and is about to write
WrittenQuantities ==
    {pallets[id].quantity : id \in DOMAIN pallets}
    \cup (IF writer = Nobody THEN {}
          ELSE {txn.pallets[id].quantity : id \in DOMAIN txn.pallets})
    \cup {proc[p].new_qty :
            p \in {q \in Procs : proc[q].pc \in {"update", "insert", "wrote", "logged"}}}

WrittenStocks ==
    {products[b].stock_percent : b \in DOMAIN products}
    \cup (IF writer = Nobody THEN {}
          ELSE {txn.products[b].stock_percent : b \in DOMAIN txn.products})
    \cup {Bind(proc[p].new_stock) :
            p \in {q \in Procs :
                     proc[q].pc \in {"stock update", "stock wrote", "stock logged"}}}

\* every quantity written, or about to be, is >= 0
QuantitiesNonNegative == \A quantity \in WrittenQuantities : quantity >= 0

\* C22: under any interleaving of entries and exits with payload quantities
\* >= 0 on the same pallet, and of stock updates on the same batch, every
\* value written to quantity is >= 0 and every value written to
\* stock_percent is a number within 0..100.
BoundsSurviveRaces ==
    /\ QuantitiesNonNegative
    /\ \A stock_percent \in WrittenStocks : StoredInRange(stock_percent)

----------------------------------------------------------------------------
(* The confirmation prompt *)

\* the positions of process_scan behind its two prompts
PastTheGate == {"scanned", "update", "insert", "wrote", "logged"}

\* C23: in the interactive console script, an answer to the confirmation
\* prompt that is not `yes` (as the script compares it, stripped and lowered)
\* makes process_scan return None with no connection opened, no transaction
\* begun and every table unchanged; a process is behind the prompts only with
\* the answer `yes` and an operation that is `entry` or `exit`, and only a
\* step of such a process begins or ends a transaction or changes the file.
ConfirmationGate ==
    /\ [](\A p \in Procs :
            proc[p].pc \in PastTheGate
            => proc[p].confirm = "yes" /\ proc[p].operation \in Operations)
    /\ [][(AllIdle /\ out' = "cancelled" /\ now' = now)
          => /\ db' = db
             /\ writer' = Nobody /\ txn' = NoTxn
             /\ proc' = proc
             /\ conn' = NoConnection
             /\ returned' = ReturnedNone
        ]_vars
    /\ [][(db' # db \/ writer' # writer)
          => \E p \in Procs :
                /\ proc[p].pc \in PastTheGate \ {"scanned"}
                /\ proc'[p] # proc[p]
                /\ proc[p].confirm = "yes"
                /\ proc[p].operation \in Operations
        ]_vars

\* C23's case: a scan of a file that holds a pallet and its log rows has just
\* been cancelled at the prompt
ConfirmationGateWitness ==
    /\ AllIdle
    /\ out = "cancelled"
    /\ returned = ReturnedNone
    /\ DOMAIN pallets # {}
    /\ Len(logs) >= 2

----------------------------------------------------------------------------
(* The two console scripts *)

\* the payload p's call of process_scan has decoded
PalletInfo(p) ==
    [pallet_id |-> proc[p].pallet_id, item_name |-> proc[p].item_name,
     quantity |-> proc[p].quantity]

\* C24: palletes.process_scan and loop2.process_scan (confirmed with `yes`)
\* implement the same ledger: from the same content of the file, with the
\* same well-formed payload, operation and clock readings, they leave the
\* same pallets and logs.  Where loop2's call rejects the request, the file
\* is unchanged and so it is after palletes' call; where loop2's call
\* commits, the file holds what palletes' call leaves.
SameLedger ==
    [][\A p \in Procs :
        /\ (Selecting(p) /\ proc'[p] = Idle)
           => LET after == PalletesProcessScan(pallets, logs, logseq, PalletInfo(p),
                                               proc[p].operation, now, now)
              IN  /\ <<pallets', logs', logseq'>> = <<pallets, logs, logseq>>
                  /\ <<after.pallets, after.logs, after.logseq>>
                        = <<pallets, logs, logseq>>
        /\ Committing(p)
           => LET after == PalletesProcessScan(pallets, logs, logseq, PalletInfo(p),
                                               proc[p].operation, proc[p].timestamp,
                                               txn.logs[Len(txn.logs)].timestamp)
              IN  <<pallets', logs', logseq'>>
                    = <<after.pallets, after.logs, after.logseq>>
      ]_vars

\* C24's case: an exit that takes part of what a pallet holds has just been
\* committed to a file with two pallets
SameLedgerWitness ==
    /\ AllIdle
    /\ out = "completed"
    /\ DOMAIN pallets = PalletIds
    /\ Len(logs) >= 3
    /\ LET last == logs[Len(logs)]
       IN  /\ last.operation = "exit"
           /\ last.quantity_change > 0
           /\ last.new_quantity > 0

====
